---- MODULE Spec2Model ----
\* A model of the multi-tier cache of india_politics_agent
\* (src/src/india_politics_agent/utils/cache.py): MemoryCache (LocalStore),
\* RedisCache (RemoteStore), HybridCache (TieredStore) and CacheManager.
\*
\* Scaling.  Cached values are strings; pickle.dumps is modelled as the payload
\* followed by the STOP opcode ".", so an entry's size is Len(value) + 1.  One
\* "megabyte" of capacity is BytesPerMb bytes.  Time is an integer clock, `now`,
\* read by datetime.now(); one call of the cache is one atomic step in the
\* sequential specifications.
EXTENDS Integers, Sequences, FiniteSets, TLC

\* ---------------------------------------------------------------- bounds

\* The clock runs from 0 to MaxTime.
MaxTime == 2
\* Calls made through one CacheManager.
MaxCalls == 3

\* ---------------------------------------------------------------- inputs

Keys == {"a", "b", "c"}
\* Python's None: what get returns for an absent key.
None == "None"
\* What a caller sees when a call ends with an exception.
Raised == "Raised"
\* A value pickle cannot serialise (a lambda, an open socket).
Unpicklable == "lambda"
Values == {"x", "xy"}
SetValues == Values \cup {Unpicklable}
TTLs == {0, 1}
\* The default of the ttl parameter of every set.
DefaultTTL == 3600
\* Bytes in one unit of max_size_mb: 1024 * 1024 in the code, scaled down to the
\* sizes of the values above (2 and 3 bytes).
BytesPerMb == 2
\* max_size_mb values a MemoryCache is constructed with: room for one small
\* entry only, and room for three small or two large entries.
MaxSizeMbs == {1, 3}

\* RedisCache's default key prefix.
prefix == "india_politics:"

VARIABLES
    mem,        \* the MemoryCache: cache, expiry, max_size_bytes, current_size
    now,        \* datetime.now()
    lastOp,     \* the last call made and what it returned
    writes,     \* history: the set calls whose entries are still stored, oldest first
    redis,      \* the keys held by the Redis service: data and time of expiry
    l2up,       \* whether the Redis service answers
    l2,         \* HybridCache.l2: the RedisCache, or None
    backend,    \* CacheManager.backend: which CacheBackend it wraps
    stats,      \* CacheManager.stats
    thrown,     \* whether the wrapped backend's method raised in the last call
    threads,    \* the calls running in threads on one MemoryCache, each with its position
    created,    \* the last two create_key calls: arguments and the key returned
    config,     \* the AgentConfig: the fields validate reads
    errors      \* what AgentConfig.validate returned last

remoteVars == <<redis, l2up, l2>>
managerVars == <<backend, stats, thrown>>
pureVars == <<created, config, errors>>
vars == <<mem, now, lastOp, writes, redis, l2up, l2, backend, stats, thrown, threads,
         created, config, errors>>

\* No thread is running a call: the calls are made one after the other.
NoThreads == <<>>
\* No AgentConfig has been built.
NoConfig == <<>>

\* ---------------------------------------------------------------- pickle

Picklable(v) == v # Unpicklable
\* pickle.dumps: the payload, then the STOP opcode.
Dumps(v) == v \o "."
\* pickle.loads: the payload before the STOP opcode.
Loads(d) == SubSeq(d, 1, Len(d) - 1)
\* len(pickle.dumps(value))
Size(v) == Len(Dumps(v))

\* ---------------------------------------------------------------- dict

\* A Python dict keeps its keys in order of first insertion; it is modelled as a
\* sequence of <<key, value>> pairs.
DictKeys(d) == {d[i][1] : i \in 1..Len(d)}
DictHas(d, k) == k \in DictKeys(d)
DictGet(d, k) == d[CHOOSE i \in 1..Len(d) : d[i][1] = k][2]
\* d[k] = v: an existing key keeps its position, a new key goes last.
DictPut(d, k, v) ==
    IF DictHas(d, k)
    THEN [i \in 1..Len(d) |-> IF d[i][1] = k THEN <<k, v>> ELSE d[i]]
    ELSE Append(d, <<k, v>>)
\* del d[k]
DictDel(d, k) == SelectSeq(d, LAMBDA e : e[1] # k)
\* next(iter(d))
DictFirst(d) == d[1][1]

\* A dict whose order does not matter (expiry), as a function on its keys.
MapPut(f, k, v) == [x \in DOMAIN f \cup {k} |-> IF x = k THEN v ELSE f[x]]
MapDel(f, k) == [x \in DOMAIN f \ {k} |-> f[x]]
EmptyMap == [x \in {} |-> 0]

\* ---------------------------------------------------------------- MemoryCache

MemoryCacheInit(max_size_mb) ==
    [cache |-> <<>>, expiry |-> EmptyMap,
     max_size_bytes |-> max_size_mb * BytesPerMb, current_size |-> 0]

IsExpired(m, key, t) ==
    IF key \notin DOMAIN m.expiry THEN TRUE ELSE t > m.expiry[key]

MemoryDelete(m, key) ==
    LET m1 == IF DictHas(m.cache, key)
              THEN [m EXCEPT
                      !.current_size =
                          IF Picklable(DictGet(m.cache, key))
                          THEN @ - Size(DictGet(m.cache, key))
                          ELSE @,
                      !.cache = DictDel(@, key)]
              ELSE m
    IN [m1 EXCEPT !.expiry = MapDel(@, key)]

\* A bug: `if` for `while`, one eviction at most.
EvictOnce(m, new_size) ==
    IF m.current_size + new_size > m.max_size_bytes /\ m.cache # <<>>
    THEN MemoryDelete(m, DictFirst(m.cache))
    ELSE m

\* The while condition of _evict_if_needed.
MustEvict(m, new_size) ==
    m.current_size + new_size > m.max_size_bytes /\ m.cache # <<>>

\* The cache after j runs of the loop body: oldest_key = next(iter(cache)),
\* self.delete(oldest_key).
RECURSIVE EvictSteps(_, _)
EvictSteps(m, j) ==
    IF j = 0 THEN m
    ELSE LET m1 == EvictSteps(m, j - 1) IN MemoryDelete(m1, DictFirst(m1.cache))

\* How many times the loop body runs.
RECURSIVE EvictIterations(_, _)
EvictIterations(m, new_size) ==
    IF MustEvict(m, new_size)
    THEN 1 + EvictIterations(MemoryDelete(m, DictFirst(m.cache)), new_size)
    ELSE 0

\* A bug: once there is too little room, everything stored is thrown out.
EvictEverything(m, new_size) ==
    IF MustEvict(m, new_size) THEN EvictSteps(m, Len(m.cache)) ELSE m

RECURSIVE EvictIfNeeded(_, _)
EvictIfNeeded(m, new_size) ==
    IF m.current_size + new_size > m.max_size_bytes /\ m.cache # <<>>
    THEN EvictIfNeeded(MemoryDelete(m, DictFirst(m.cache)), new_size)
    ELSE m

\* A bug: an expired entry is reported absent but left in place.
MemoryGetKeepsExpired(m, key, t) ==
    IF ~DictHas(m.cache, key) \/ IsExpired(m, key, t)
    THEN [mem |-> m, value |-> None]
    ELSE [mem |-> m, value |-> DictGet(m.cache, key)]

\* [mem |-> the cache after the call, value |-> what the call returns]
MemoryGet(m, key, t) ==
    IF ~DictHas(m.cache, key) \/ IsExpired(m, key, t)
    THEN [mem |-> IF DictHas(m.cache, key) THEN MemoryDelete(m, key) ELSE m,
          value |-> None]
    ELSE [mem |-> m, value |-> DictGet(m.cache, key)]

\* A bug: the entry is stored first and room is made afterwards.
MemorySetEvictsAfter(m, key, value, ttl, t) ==
    IF ~Picklable(value)
    THEN m
    ELSE EvictIfNeeded([m EXCEPT !.cache = DictPut(@, key, value),
                                 !.expiry = MapPut(@, key, t + ttl),
                                 !.current_size = @ + Size(value)], 0)

MemorySet(m, key, value, ttl, t) ==
    IF ~Picklable(value)
    THEN m      \* pickle.dumps raises; the except clause logs and returns
    ELSE LET size == Size(value)
             m1 == EvictIfNeeded(m, size)
         IN [m1 EXCEPT !.cache = DictPut(@, key, value),
                       !.expiry = MapPut(@, key, t + ttl),
                       !.current_size = @ + size]

MemoryClear(m) ==
    [m EXCEPT !.cache = <<>>, !.expiry = EmptyMap, !.current_size = 0]

\* A bug: exists looks at the dict only.
MemoryExistsIgnoresExpiry(m, key, t) == DictHas(m.cache, key)

MemoryExists(m, key, t) == DictHas(m.cache, key) /\ ~IsExpired(m, key, t)

\* ---------------------------------------------------------------- RedisCache

\* The client calls of RedisCache go to a Redis service, `r`: a map from remote
\* key to [data, expire_at].  A call raises when the service does not answer
\* (`up` is false); every method of RedisCache catches that and logs it.

MakeKey(key) == prefix \o key

\* The service drops a key once its time of expiry has passed.
RedisExpire(r, t) ==
    [x \in {y \in DOMAIN r : ~(t > r[y].expire_at)} |-> r[x]]

\* A bug: no try around the client call, a connection error reaches the caller.
RedisGetPropagates(r, up, key) ==
    IF ~up THEN Raised
    ELSE IF MakeKey(key) \notin DOMAIN r THEN None
    ELSE Loads(r[MakeKey(key)].data)

RedisGet(r, up, key) ==
    IF ~up THEN None
    ELSE IF MakeKey(key) \notin DOMAIN r THEN None
    ELSE Loads(r[MakeKey(key)].data)

\* SETEX answers an error for a time to live that is not positive.
RedisSet(r, up, key, value, ttl, t) ==
    IF ~Picklable(value) \/ ~up \/ ttl <= 0 THEN r
    ELSE MapPut(r, MakeKey(key), [data |-> Dumps(value), expire_at |-> t + ttl])

RedisDelete(r, up, key) == IF ~up THEN r ELSE MapDel(r, MakeKey(key))

HasPrefix(x) == Len(x) >= Len(prefix) /\ SubSeq(x, 1, Len(prefix)) = prefix

\* A bug: clear empties the whole service (FLUSHDB), not the keys of the prefix.
RedisClearFlushes(r, up) == IF ~up THEN r ELSE EmptyMap

RedisClear(r, up) ==
    IF ~up THEN r ELSE [x \in {y \in DOMAIN r : ~HasPrefix(y)} |-> r[x]]

RedisExists(r, up, key) == IF ~up THEN FALSE ELSE MakeKey(key) \in DOMAIN r

\* A Python bool as lastOp records it, and the truth value of what a call
\* returned (None and False are false).
BoolStr(b) == IF b THEN "True" ELSE "False"
Truthy(v) == v \notin {None, BoolStr(FALSE)}

\* ---------------------------------------------------------------- HybridCache

\* What RedisCache(...) gives: the object, or the CacheError its __init__
\* raises when the connection or the ping fails.
CacheError == "CacheError"
RedisCacheInit(up) == IF up THEN "RedisCache" ELSE CacheError

\* A bug: HybridCache.__init__ keeps a RedisCache it could not connect.
HybridCacheInitKeepsClient(up) == "RedisCache"

\* HybridCache.__init__: self.l2, None when RedisCache(...) raised.
HybridCacheInit(up) ==
    IF RedisCacheInit(up) = CacheError THEN None ELSE RedisCacheInit(up)

\* A bug: a value found in L2 is returned without being put into L1.
HybridGetNoPopulate(m, r, cfg, up, key, t) ==
    LET first == MemoryGet(m, key, t) IN
    IF first.value # None THEN first
    ELSE [mem |-> first.mem,
          value |-> IF cfg # None THEN RedisGet(r, up, key) ELSE None]

\* A bug: L1 is populated under the remote key, prefix included.
HybridGetPopulatesRemoteKey(m, r, cfg, up, key, t) ==
    LET first == MemoryGet(m, key, t) IN
    IF first.value # None THEN first
    ELSE IF cfg # None /\ RedisGet(r, up, key) # None
         THEN [mem |-> MemorySet(first.mem, MakeKey(key), RedisGet(r, up, key),
                                 DefaultTTL, t),
               value |-> RedisGet(r, up, key)]
         ELSE [mem |-> first.mem, value |-> None]

\* [mem |-> L1 after the call, value |-> what the call returns]
HybridGet(m, r, cfg, up, key, t) ==
    LET first == MemoryGet(m, key, t) IN
    IF first.value # None THEN first
    ELSE IF cfg # None /\ RedisGet(r, up, key) # None
         THEN [mem |-> MemorySet(first.mem, key, RedisGet(r, up, key), DefaultTTL, t),
               value |-> RedisGet(r, up, key)]
         ELSE [mem |-> first.mem, value |-> None]

\* A bug: L1 is written only once the L2 write has gone through.
HybridSetRemoteFirst(m, r, cfg, up, key, value, ttl, t) ==
    IF cfg # None /\ RedisSet(r, up, key, value, ttl, t) = r
    THEN [mem |-> m, redis |-> r]
    ELSE [mem |-> MemorySet(m, key, value, ttl, t),
          redis |-> IF cfg # None THEN RedisSet(r, up, key, value, ttl, t) ELSE r]

\* [mem |-> L1 after the call, redis |-> the service after the call]
HybridSet(m, r, cfg, up, key, value, ttl, t) ==
    [mem |-> MemorySet(m, key, value, ttl, t),
     redis |-> IF cfg # None THEN RedisSet(r, up, key, value, ttl, t) ELSE r]

\* A bug: delete stops at L1.
HybridDeleteLocalOnly(m, r, cfg, up, key) ==
    [mem |-> MemoryDelete(m, key), redis |-> r]

HybridDelete(m, r, cfg, up, key) ==
    [mem |-> MemoryDelete(m, key),
     redis |-> IF cfg # None THEN RedisDelete(r, up, key) ELSE r]

HybridClear(m, r, cfg, up) ==
    [mem |-> MemoryClear(m),
     redis |-> IF cfg # None THEN RedisClear(r, up) ELSE r]

\* A bug: exists asks L2 only.
HybridExistsRemoteOnly(m, r, cfg, up, key, t) ==
    IF cfg = None THEN None ELSE BoolStr(RedisExists(r, up, key))

\* `self.l1.exists(key) or (self.l2 and self.l2.exists(key))`, as Python
\* evaluates it: True from L1, else self.l2 itself when that is None, else what
\* l2.exists returns.
HybridExists(m, r, cfg, up, key, t) ==
    IF MemoryExists(m, key, t) THEN BoolStr(TRUE)
    ELSE IF cfg = None THEN None
    ELSE BoolStr(RedisExists(r, up, key))

\* ---------------------------------------------------------------- history

\* The sum of the sizes of the stored entries.
RECURSIVE SumSizes(_)
SumSizes(d) == IF d = <<>> THEN 0 ELSE Size(d[1][2]) + SumSizes(Tail(d))

\* A call, what it returned (for set: the value given) and the keys it removed.
Call(op, key, value, before, after) ==
    [op |-> op, key |-> key, value |-> value, at |-> now,
     removed |-> DictKeys(before.cache) \ DictKeys(after.cache)]
NoCall == [op |-> "init", key |-> "", value |-> None, at |-> 0, removed |-> {}]

\* The set calls behind the entries of cache c, in call order.
StillStored(w, c) == SelectSeq(w, LAMBDA e : e.key \in DictKeys(c))
Recorded(w, key, value, ttl, t) ==
    Append(SelectSeq(w, LAMBDA e : e.key # key),
           [key |-> key, value |-> value, at |-> t, ttl |-> ttl])
WritePos(w, key) == CHOOSE i \in 1..Len(w) : w[i].key = key
WriteOf(w, key) == w[WritePos(w, key)]

\* ---------------------------------------------------------------- LocalStore alone

NoStats == [hits |-> 0, misses |-> 0, sets |-> 0, errors |-> 0]

LocalInit ==
    /\ mem \in {MemoryCacheInit(mb) : mb \in MaxSizeMbs}
    /\ now = 0
    /\ lastOp = NoCall
    /\ writes = <<>>
    /\ redis = EmptyMap
    /\ l2up = FALSE
    /\ l2 = None
    /\ backend = "memory"
    /\ stats = NoStats
    /\ thrown = FALSE
    /\ threads = NoThreads
    /\ created = <<>>
    /\ config = NoConfig
    /\ errors = <<>>

LocalSet(k, v, ttl) ==
    /\ mem' = MemorySet(mem, k, v, ttl, now)
    /\ lastOp' = Call("set", k, v, mem, mem')
    /\ writes' = StillStored(IF Picklable(v) THEN Recorded(writes, k, v, ttl, now)
                                             ELSE writes, mem'.cache)
    /\ UNCHANGED <<now, remoteVars, managerVars, threads, pureVars>>

LocalGet(k) ==
    /\ mem' = MemoryGet(mem, k, now).mem
    /\ lastOp' = Call("get", k, MemoryGet(mem, k, now).value, mem, mem')
    /\ writes' = StillStored(writes, mem'.cache)
    /\ UNCHANGED <<now, remoteVars, managerVars, threads, pureVars>>

LocalDelete(k) ==
    /\ mem' = MemoryDelete(mem, k)
    /\ lastOp' = Call("delete", k, None, mem, mem')
    /\ writes' = StillStored(writes, mem'.cache)
    /\ UNCHANGED <<now, remoteVars, managerVars, threads, pureVars>>

LocalExists(k) ==
    /\ lastOp' = Call("exists", k, BoolStr(MemoryExists(mem, k, now)), mem, mem)
    /\ UNCHANGED <<mem, now, writes, remoteVars, managerVars, threads, pureVars>>

LocalClear ==
    /\ mem' = MemoryClear(mem)
    /\ lastOp' = Call("clear", "", None, mem, mem')
    /\ writes' = <<>>
    /\ UNCHANGED <<now, remoteVars, managerVars, threads, pureVars>>

Tick ==
    /\ now < MaxTime
    /\ now' = now + 1
    /\ redis' = RedisExpire(redis, now')
    /\ UNCHANGED <<mem, lastOp, writes, l2up, l2, managerVars, threads, pureVars>>

LocalNext ==
    \/ \E k \in Keys, v \in SetValues, ttl \in TTLs : LocalSet(k, v, ttl)
    \/ \E k \in Keys : LocalGet(k)
    \/ \E k \in Keys : LocalDelete(k)
    \/ \E k \in Keys : LocalExists(k)
    \/ LocalClear
    \/ Tick

SpecLocal == LocalInit /\ [][LocalNext]_vars

\* ---------------------------------------------------------------- TieredStore

\* Keys given to a HybridCache, and the max_memory_mb values it is built with.
TieredKeys == {"a", "b"}
MaxMemoryMbs == {1, 2}

\* HybridCache.__init__: l2 is the RedisCache when the service answers the
\* ping, and None when RedisCache.__init__ raises CacheError.  lastOp starts
\* with what the RedisCache(...) call inside it gave.
TieredInit ==
    /\ mem \in {MemoryCacheInit(mb) : mb \in MaxMemoryMbs}
    /\ now = 0
    /\ l2up \in BOOLEAN
    /\ lastOp = [NoCall EXCEPT !.value = RedisCacheInit(l2up)]
    /\ writes = <<>>
    /\ redis = EmptyMap
    /\ l2 = HybridCacheInit(l2up)
    /\ backend = "hybrid"
    /\ stats = NoStats
    /\ thrown = FALSE
    /\ threads = NoThreads
    /\ created = <<>>
    /\ config = NoConfig
    /\ errors = <<>>

TieredGet(k) ==
    /\ mem' = HybridGet(mem, redis, l2, l2up, k, now).mem
    /\ lastOp' = Call("get", k, HybridGet(mem, redis, l2, l2up, k, now).value, mem, mem')
    /\ UNCHANGED <<now, writes, remoteVars, managerVars, threads, pureVars>>

TieredSet(k, v, ttl) ==
    /\ mem' = HybridSet(mem, redis, l2, l2up, k, v, ttl, now).mem
    /\ redis' = HybridSet(mem, redis, l2, l2up, k, v, ttl, now).redis
    /\ lastOp' = Call("set", k, v, mem, mem')
    /\ UNCHANGED <<now, writes, l2up, l2, managerVars, threads, pureVars>>

TieredExists(k) ==
    /\ lastOp' = Call("exists", k, HybridExists(mem, redis, l2, l2up, k, now),
                      mem, mem)
    /\ UNCHANGED <<mem, now, writes, remoteVars, managerVars, threads, pureVars>>

TieredDelete(k) ==
    /\ mem' = HybridDelete(mem, redis, l2, l2up, k).mem
    /\ redis' = HybridDelete(mem, redis, l2, l2up, k).redis
    /\ lastOp' = Call("delete", k, None, mem, mem')
    /\ UNCHANGED <<now, writes, l2up, l2, managerVars, threads, pureVars>>

TieredClear ==
    /\ mem' = HybridClear(mem, redis, l2, l2up).mem
    /\ redis' = HybridClear(mem, redis, l2, l2up).redis
    /\ lastOp' = Call("clear", "", None, mem, mem')
    /\ UNCHANGED <<now, writes, l2up, l2, managerVars, threads, pureVars>>

\* The Redis service a RedisCache or HybridCache talks to stops answering, and
\* answers again.
LinkDown ==
    /\ backend \in {"redis", "hybrid"}
    /\ l2up
    /\ l2up' = FALSE
    /\ UNCHANGED <<mem, now, lastOp, writes, redis, l2, managerVars, threads, pureVars>>

LinkUp ==
    /\ backend \in {"redis", "hybrid"}
    /\ ~l2up
    /\ l2up' = TRUE
    /\ UNCHANGED <<mem, now, lastOp, writes, redis, l2, managerVars, threads, pureVars>>

TieredNext ==
    \/ \E k \in TieredKeys, v \in SetValues, ttl \in TTLs : TieredSet(k, v, ttl)
    \/ \E k \in TieredKeys : TieredGet(k)
    \/ \E k \in TieredKeys : TieredDelete(k)
    \/ \E k \in TieredKeys : TieredExists(k)
    \/ TieredClear
    \/ LinkDown
    \/ LinkUp
    \/ Tick

SpecTiered == TieredInit /\ [][TieredNext]_vars

\* ---------------------------------------------------------------- RemoteStore alone

\* Keys of other users of the same Redis service: none starts with the prefix.
ForeignKeys == {"a", "other:a"}
ForeignData == [x \in ForeignKeys |-> [data |-> Dumps("z"), expire_at |-> DefaultTTL]]

\* RedisCache.__init__ has returned: the service answered the ping.
RemoteInit ==
    /\ mem = MemoryCacheInit(1)
    /\ now = 0
    /\ lastOp = NoCall
    /\ writes = <<>>
    /\ redis = ForeignData
    /\ l2up = TRUE
    /\ l2 = None
    /\ backend = "redis"
    /\ stats = NoStats
    /\ thrown = FALSE
    /\ threads = NoThreads
    /\ created = <<>>
    /\ config = NoConfig
    /\ errors = <<>>

RemoteGet(k) ==
    /\ lastOp' = Call("get", k, RedisGet(redis, l2up, k), mem, mem)
    /\ UNCHANGED <<mem, now, writes, remoteVars, managerVars, threads, pureVars>>

RemoteSet(k, v, ttl) ==
    /\ redis' = RedisSet(redis, l2up, k, v, ttl, now)
    /\ lastOp' = Call("set", k, v, mem, mem)
    /\ UNCHANGED <<mem, now, writes, l2up, l2, managerVars, threads, pureVars>>

RemoteDelete(k) ==
    /\ redis' = RedisDelete(redis, l2up, k)
    /\ lastOp' = Call("delete", k, None, mem, mem)
    /\ UNCHANGED <<mem, now, writes, l2up, l2, managerVars, threads, pureVars>>

RemoteClear ==
    /\ redis' = RedisClear(redis, l2up)
    /\ lastOp' = Call("clear", "", None, mem, mem)
    /\ UNCHANGED <<mem, now, writes, l2up, l2, managerVars, threads, pureVars>>

RemoteExists(k) ==
    /\ lastOp' = Call("exists", k, BoolStr(RedisExists(redis, l2up, k)), mem, mem)
    /\ UNCHANGED <<mem, now, writes, remoteVars, managerVars, threads, pureVars>>

RemoteNext ==
    \/ \E k \in Keys, v \in SetValues, ttl \in TTLs : RemoteSet(k, v, ttl)
    \/ \E k \in Keys : RemoteGet(k)
    \/ \E k \in Keys : RemoteDelete(k)
    \/ \E k \in Keys : RemoteExists(k)
    \/ RemoteClear
    \/ LinkDown
    \/ LinkUp
    \/ Tick

SpecRemote == RemoteInit /\ [][RemoteNext]_vars

\* ---------------------------------------------------------------- CacheManager

\* The backends a CacheManager wraps: the three of cache.py, and "stub", any
\* other CacheBackend subclass, whose methods may return or raise.
Backends == {"memory", "redis", "hybrid", "stub"}
ManagerKeys == {"a", "b"}
\* max_size_mb of the MemoryCache inside a wrapped memory or hybrid backend.
ManagerMbs == {1}

\* backend.get(key): the outcomes [mem, value], value Raised when it raises.
BackendGet(key) ==
    CASE backend = "memory" -> {MemoryGet(mem, key, now)}
      [] backend = "redis" -> {[mem |-> mem, value |-> RedisGet(redis, l2up, key)]}
      [] backend = "hybrid" -> {HybridGet(mem, redis, l2, l2up, key, now)}
      [] backend = "stub" ->
            {[mem |-> mem, value |-> o] : o \in Values \cup {None, Raised}}

\* backend.set(key, value, ttl): the outcomes [mem, redis, raised].
BackendSet(key, value, ttl) ==
    CASE backend = "memory" ->
            {[mem |-> MemorySet(mem, key, value, ttl, now), redis |-> redis,
              raised |-> FALSE]}
      [] backend = "redis" ->
            {[mem |-> mem, redis |-> RedisSet(redis, l2up, key, value, ttl, now),
              raised |-> FALSE]}
      [] backend = "hybrid" ->
            {[mem |-> HybridSet(mem, redis, l2, l2up, key, value, ttl, now).mem,
              redis |-> HybridSet(mem, redis, l2, l2up, key, value, ttl, now).redis,
              raised |-> FALSE]}
      [] backend = "stub" ->
            {[mem |-> mem, redis |-> redis, raised |-> b] : b \in BOOLEAN}

\* backend.delete(key)
BackendDelete(key) ==
    CASE backend = "memory" ->
            {[mem |-> MemoryDelete(mem, key), redis |-> redis, raised |-> FALSE]}
      [] backend = "redis" ->
            {[mem |-> mem, redis |-> RedisDelete(redis, l2up, key), raised |-> FALSE]}
      [] backend = "hybrid" ->
            {[mem |-> HybridDelete(mem, redis, l2, l2up, key).mem,
              redis |-> HybridDelete(mem, redis, l2, l2up, key).redis,
              raised |-> FALSE]}
      [] backend = "stub" ->
            {[mem |-> mem, redis |-> redis, raised |-> b] : b \in BOOLEAN}

\* backend.clear()
BackendClear ==
    CASE backend = "memory" ->
            {[mem |-> MemoryClear(mem), redis |-> redis, raised |-> FALSE]}
      [] backend = "redis" ->
            {[mem |-> mem, redis |-> RedisClear(redis, l2up), raised |-> FALSE]}
      [] backend = "hybrid" ->
            {[mem |-> HybridClear(mem, redis, l2, l2up).mem,
              redis |-> HybridClear(mem, redis, l2, l2up).redis,
              raised |-> FALSE]}
      [] backend = "stub" ->
            {[mem |-> mem, redis |-> redis, raised |-> b] : b \in BOOLEAN}

\* A bug: the except clause counts the failed get as a miss as well.
ManagerGetCountsMissToo(st, value) ==
    IF value = Raised
    THEN [stats |-> [st EXCEPT !.errors = @ + 1, !.misses = @ + 1], value |-> None]
    ELSE IF value # None
         THEN [stats |-> [st EXCEPT !.hits = @ + 1], value |-> value]
         ELSE [stats |-> [st EXCEPT !.misses = @ + 1], value |-> value]

\* A bug: a get that finds nothing is not counted.
ManagerGetForgetsMiss(st, value) ==
    IF value = Raised
    THEN [stats |-> [st EXCEPT !.errors = @ + 1], value |-> None]
    ELSE IF value # None
         THEN [stats |-> [st EXCEPT !.hits = @ + 1], value |-> value]
         ELSE [stats |-> st, value |-> value]

\* CacheManager.get, given what backend.get did: [stats, value returned].
ManagerGetResult(st, value) ==
    IF value = Raised
    THEN [stats |-> [st EXCEPT !.errors = @ + 1], value |-> None]
    ELSE IF value # None
         THEN [stats |-> [st EXCEPT !.hits = @ + 1], value |-> value]
         ELSE [stats |-> [st EXCEPT !.misses = @ + 1], value |-> value]

\* A bug: sets is counted before the backend is called.
ManagerSetCountsFirst(st, raised) ==
    IF raised THEN [st EXCEPT !.sets = @ + 1, !.errors = @ + 1]
              ELSE [st EXCEPT !.sets = @ + 1]

\* CacheManager.set, given whether backend.set raised: the stats after it.
ManagerSetResult(st, raised) ==
    IF raised THEN [st EXCEPT !.errors = @ + 1] ELSE [st EXCEPT !.sets = @ + 1]

StatsTotal(st) == st.hits + st.misses + st.sets + st.errors

\* CacheManager.__init__ around a backend just constructed: RedisCache.__init__
\* raises unless the service answers; HybridCache.__init__ falls back to l2 = None.
ManagerInit ==
    /\ backend \in Backends
    /\ mem \in {MemoryCacheInit(mb) : mb \in ManagerMbs}
    /\ now = 0
    /\ lastOp = NoCall
    /\ writes = <<>>
    /\ redis = EmptyMap
    /\ l2up \in BOOLEAN
    /\ backend = "redis" => l2up
    /\ backend \in {"memory", "stub"} => ~l2up
    /\ l2 = IF backend = "hybrid" /\ l2up THEN "RedisCache" ELSE None
    /\ stats = NoStats
    /\ thrown = FALSE
    /\ threads = NoThreads
    /\ created = <<>>
    /\ config = NoConfig
    /\ errors = <<>>

ManagerGet(k) ==
    /\ StatsTotal(stats) < MaxCalls
    /\ \E out \in BackendGet(k) :
          /\ mem' = out.mem
          /\ thrown' = (out.value = Raised)
          /\ stats' = ManagerGetResult(stats, out.value).stats
          /\ lastOp' = Call("get", k, ManagerGetResult(stats, out.value).value, mem, mem')
    /\ UNCHANGED <<now, writes, remoteVars, backend, threads, pureVars>>

ManagerSet(k, v, ttl) ==
    /\ StatsTotal(stats) < MaxCalls
    /\ \E out \in BackendSet(k, v, ttl) :
          /\ mem' = out.mem
          /\ redis' = out.redis
          /\ thrown' = out.raised
          /\ stats' = ManagerSetResult(stats, out.raised)
          /\ lastOp' = Call("set", k, v, mem, mem')
    /\ UNCHANGED <<now, writes, l2up, l2, backend, threads, pureVars>>

\* CacheManager.delete and clear have no try: what the backend raises reaches
\* the caller.
ManagerDelete(k) ==
    /\ \E out \in BackendDelete(k) :
          /\ mem' = out.mem
          /\ redis' = out.redis
          /\ thrown' = out.raised
          /\ lastOp' = Call("delete", k, IF out.raised THEN Raised ELSE None, mem, mem')
    /\ UNCHANGED <<now, writes, l2up, l2, backend, stats, threads, pureVars>>

ManagerClear ==
    /\ \E out \in BackendClear :
          /\ mem' = out.mem
          /\ redis' = out.redis
          /\ thrown' = out.raised
          /\ lastOp' = Call("clear", "", IF out.raised THEN Raised ELSE None, mem, mem')
    /\ UNCHANGED <<now, writes, l2up, l2, backend, stats, threads, pureVars>>

\* CacheManager.get_stats reads the counters and returns a new dict; lastOp
\* keeps the call, not the dict.
ManagerGetStats ==
    /\ lastOp' = Call("get_stats", "", None, mem, mem)
    /\ UNCHANGED <<mem, now, writes, remoteVars, managerVars, threads, pureVars>>

ManagerNext ==
    \/ \E k \in ManagerKeys, v \in SetValues, ttl \in TTLs : ManagerSet(k, v, ttl)
    \/ \E k \in ManagerKeys : ManagerGet(k)
    \/ \E k \in ManagerKeys : ManagerDelete(k)
    \/ ManagerClear
    \/ ManagerGetStats
    \/ LinkDown
    \/ LinkUp
    \/ Tick

SpecManager == ManagerInit /\ [][ManagerNext]_vars

\* ---------------------------------------------------------------- CacheManager.create_key

\* The Python values given to create_key: str, int, tuple and list of int, and
\* dict of one item, as a sequence of <<key, value>>.
PyStr(s) == [type |-> "str", text |-> s, items |-> <<>>]
PyInt(digits) == [type |-> "int", text |-> digits, items |-> <<>>]
PyTuple(items) == [type |-> "tuple", text |-> "", items |-> items]
PyList(items) == [type |-> "list", text |-> "", items |-> items]
PyDict(items) == [type |-> "dict", text |-> "", items |-> items]
ArgValues ==
    {PyStr("x"), PyStr("y"), PyStr("1"), PyInt("1"),
     PyTuple(<<PyInt("1"), PyInt("2")>>), PyList(<<PyInt("1"), PyInt("2")>>),
     PyDict(<<<<PyInt("1"), PyStr("a")>>>>), PyDict(<<<<PyStr("1"), PyStr("a")>>>>)}
\* *args: no positional argument, or one.
ArgTuples == {<<>>} \cup {<<v>> : v \in ArgValues}
\* **kwargs: a dict, its items in the order the call names them.  KwNames is
\* in the order sort_keys puts the names in.
KwNames == <<"a", "b">>
KwValues == {PyInt("1"), PyInt("2")}
KwDicts ==
    {<<>>}
    \cup {<<<<KwNames[i], v>>>> : i \in 1..Len(KwNames), v \in KwValues}
    \cup {kw \in {<<<<KwNames[i], v>>, <<KwNames[j], w>>>> :
                    i \in 1..Len(KwNames), j \in 1..Len(KwNames),
                    v \in KwValues, w \in KwValues} : kw[1][1] # kw[2][1]}

\* json.dumps of a value: a tuple is written as a list is, and the key of a
\* dict item as a string whether it is a str or an int.
RECURSIVE JsonValue(_)
RECURSIVE JsonItems(_)
JsonItems(items) ==
    IF items = <<>> THEN ""
    ELSE JsonValue(items[1]) \o (IF Len(items) > 1 THEN ", " \o JsonItems(Tail(items)) ELSE "")
JsonValue(v) ==
    CASE v.type = "str" -> "\"" \o v.text \o "\""
      [] v.type = "int" -> v.text
      [] v.type \in {"tuple", "list"} -> "[" \o JsonItems(v.items) \o "]"
      [] v.type = "dict" ->
            "{\"" \o v.items[1][1].text \o "\": " \o JsonValue(v.items[1][2]) \o "}"

\* sort_keys=True: the items of the dict in the order of their names.
RECURSIVE SortKeys(_, _)
SortKeys(kw, names) ==
    IF names = <<>> THEN <<>>
    ELSE SelectSeq(kw, LAMBDA e : e[1] = names[1]) \o SortKeys(kw, Tail(names))
RECURSIVE JsonMembers(_)
JsonMembers(kw) ==
    IF kw = <<>> THEN ""
    ELSE "\"" \o kw[1][1] \o "\": " \o JsonValue(kw[1][2])
         \o (IF Len(kw) > 1 THEN ", " \o JsonMembers(Tail(kw)) ELSE "")

\* json.dumps({'args': args, 'kwargs': kwargs}, sort_keys=True)
JsonDumps(args, kwargs) ==
    "{\"args\": [" \o JsonItems(args) \o "], \"kwargs\": {"
    \o JsonMembers(SortKeys(kwargs, KwNames)) \o "}}"

\* hashlib.sha256(key_data.encode()).hexdigest(), for the texts JsonDumps gives
\* on ArgTuples and KwDicts.
Sha256Hex(s) ==
    CASE s = "{\"args\": [\"1\"], \"kwargs\": {\"a\": 1, \"b\": 1}}" ->
           "e3c19f989520f62fcaddcfb067a77776afd422adbf349ae3ce2895552b3b1779"
      [] s = "{\"args\": [\"1\"], \"kwargs\": {\"a\": 1, \"b\": 2}}" ->
           "f3851a90a040722f6ab4b6af3f7a63fe4e26d9ca1bc6ddc851a00eece6e2bfed"
      [] s = "{\"args\": [\"1\"], \"kwargs\": {\"a\": 1}}" ->
           "84db8b1018308dd1afaa116cbd1c133bafe02c2edee6072492c180b397eececb"
      [] s = "{\"args\": [\"1\"], \"kwargs\": {\"a\": 2, \"b\": 1}}" ->
           "80adb6bda648b864a2c50ab493c9aad7ad6c0bdcbe4c04d2e739e6f5df4f5d2d"
      [] s = "{\"args\": [\"1\"], \"kwargs\": {\"a\": 2, \"b\": 2}}" ->
           "69154678f92a3da56ed1cb9a699dd2d533d63c0a5973579eae5570daf4b0034a"
      [] s = "{\"args\": [\"1\"], \"kwargs\": {\"a\": 2}}" ->
           "d338ac4f910d7366a2e07c67ed074a9119aa63e7a7d309a682f0696f9f07952c"
      [] s = "{\"args\": [\"1\"], \"kwargs\": {\"b\": 1}}" ->
           "bdcd840d4d1d6c61ffc473817422e8ddc78c1b24a34e3a98f25827005c932c5c"
      [] s = "{\"args\": [\"1\"], \"kwargs\": {\"b\": 2}}" ->
           "16e8e7deb99de182e62a2d62f6017b6a713252a05562b9c9d65c674bde5da9ee"
      [] s = "{\"args\": [\"1\"], \"kwargs\": {}}" ->
           "625a888708b52802a7c69a362abc403b4eb84c4c924e2fc9b3baa78df574c16b"
      [] s = "{\"args\": [\"x\"], \"kwargs\": {\"a\": 1, \"b\": 1}}" ->
           "39df512381c89985d0d6260269c739847668355ad06e8d21fce3e1babec88fe5"
      [] s = "{\"args\": [\"x\"], \"kwargs\": {\"a\": 1, \"b\": 2}}" ->
           "96041ca5e123a5499d4734b4b5e7870a41b30c611610003135c31e2a473e7eca"
      [] s = "{\"args\": [\"x\"], \"kwargs\": {\"a\": 1}}" ->
           "533ee875e8b087a105e29d1dee8fe188ff7a24da233eed59a09e029bb98e8739"
      [] s = "{\"args\": [\"x\"], \"kwargs\": {\"a\": 2, \"b\": 1}}" ->
           "d90d7e9140c8c7a8d07da26309584059fa7a32ef30a89c2475f8e6881cda64d0"
      [] s = "{\"args\": [\"x\"], \"kwargs\": {\"a\": 2, \"b\": 2}}" ->
           "02c96abcac03217630c1daa4deb9e1b5d0ef245403527fbf2c442a1452386c26"
      [] s = "{\"args\": [\"x\"], \"kwargs\": {\"a\": 2}}" ->
           "184c89580eeb282c36f3957a225c5df2aa4040de1151f5ccb53c0081c54e7291"
      [] s = "{\"args\": [\"x\"], \"kwargs\": {\"b\": 1}}" ->
           "77e0ca157b322527feddb14c49db5a29f6608696dd5f85d7887639b05886c0df"
      [] s = "{\"args\": [\"x\"], \"kwargs\": {\"b\": 2}}" ->
           "c8c8e260dc410de6201a762a54419c39fffa57407fe58c8aedbbceb989fedcbc"
      [] s = "{\"args\": [\"x\"], \"kwargs\": {}}" ->
           "1ee473ac57e52e36214398a2059d9bc33eb60ae0035b382c220877fedc36f2cf"
      [] s = "{\"args\": [\"y\"], \"kwargs\": {\"a\": 1, \"b\": 1}}" ->
           "355ed81ed4a14e4199577a8b97c9c97c39f4583c881180c36bfc9486038bf46f"
      [] s = "{\"args\": [\"y\"], \"kwargs\": {\"a\": 1, \"b\": 2}}" ->
           "a0c4bddd7f123a4b5eabc298073d9ff8eb41a0a44a8ea0f176784dcbb7420a2d"
      [] s = "{\"args\": [\"y\"], \"kwargs\": {\"a\": 1}}" ->
           "4586f3f2d22f3a7520d9993039e32f78ad9fb135bfa667c3c71a5e63777ed3a3"
      [] s = "{\"args\": [\"y\"], \"kwargs\": {\"a\": 2, \"b\": 1}}" ->
           "0a787c159c4b163f293cd28f866eafff0417b28f4b55767eb204d896f596f179"
      [] s = "{\"args\": [\"y\"], \"kwargs\": {\"a\": 2, \"b\": 2}}" ->
           "3033f45f89338a675f6ed0150acb78e01887c2b27ea52ca27ce8c53c8deb6cbf"
      [] s = "{\"args\": [\"y\"], \"kwargs\": {\"a\": 2}}" ->
           "defe65326454a2c757d609389130600f59d323f0a974bc3ae3de574d159d0125"
      [] s = "{\"args\": [\"y\"], \"kwargs\": {\"b\": 1}}" ->
           "6d9efdcaea4d35b6ab61a2e7c394a66b5d9e0f894d2f54a0c9dae25badb3fc47"
      [] s = "{\"args\": [\"y\"], \"kwargs\": {\"b\": 2}}" ->
           "cd4be75b2064217a62918b9cc9dc1f037ee1745faecd87902bd50b29eb8f4ceb"
      [] s = "{\"args\": [\"y\"], \"kwargs\": {}}" ->
           "42b9d0355d5a049359b438b582fa0a30050ee448713a6b4d0027f1243a5ef0e0"
      [] s = "{\"args\": [1], \"kwargs\": {\"a\": 1, \"b\": 1}}" ->
           "3f5dde0259c215697dab47f92b14191398e11bfec088ac1c821c166caca941b7"
      [] s = "{\"args\": [1], \"kwargs\": {\"a\": 1, \"b\": 2}}" ->
           "e2cd462f847af52d16a10cb8f98dcc51764012fd0227d2ae339d63a3bbbac189"
      [] s = "{\"args\": [1], \"kwargs\": {\"a\": 1}}" ->
           "068b2f099115ac4b82baf50beb772332a7ebf9eabbb82c27887cefa924bca796"
      [] s = "{\"args\": [1], \"kwargs\": {\"a\": 2, \"b\": 1}}" ->
           "44796e510872024888786deea3daeeb01fcc38891bd3422d06d5c869f535182c"
      [] s = "{\"args\": [1], \"kwargs\": {\"a\": 2, \"b\": 2}}" ->
           "f278867ce691622d7512609603cb02a3ef5570b0807ade5db7ce40e6e14e1138"
      [] s = "{\"args\": [1], \"kwargs\": {\"a\": 2}}" ->
           "5a7d9943b16c9cbf75b082d6de3daca9f110b50e2934549467fdbdc9af8f18e4"
      [] s = "{\"args\": [1], \"kwargs\": {\"b\": 1}}" ->
           "95446698548d8c7d2ec660ee1a0f68e3cbd56b1c21ea3548cdb0824abd33fd56"
      [] s = "{\"args\": [1], \"kwargs\": {\"b\": 2}}" ->
           "3fb6c3403cfcc1406b56aa5fd2754d90e6e55ac737638dffd1cb92c8e44d3bda"
      [] s = "{\"args\": [1], \"kwargs\": {}}" ->
           "2da0b9c5f1a93f3096b5e6b58e16d62dca4a20600a461c3ac81d67c914731ab7"
      [] s = "{\"args\": [[1, 2]], \"kwargs\": {\"a\": 1, \"b\": 1}}" ->
           "fb09dbd92e53eefd061bc24299ebc7041e110e56edcfed3f92ec03290397f820"
      [] s = "{\"args\": [[1, 2]], \"kwargs\": {\"a\": 1, \"b\": 2}}" ->
           "2a9cf627d01924138639f89eb5477aa9538178e5e48905d521e9f91470ecc7a1"
      [] s = "{\"args\": [[1, 2]], \"kwargs\": {\"a\": 1}}" ->
           "b1015bc2962120ba564e03eafa25de9d9db95c7c3c4c2c168cce107eb40ed079"
      [] s = "{\"args\": [[1, 2]], \"kwargs\": {\"a\": 2, \"b\": 1}}" ->
           "982c58331b19054de462a8214960279f72ae570da8bd22b9ef57ee5dd6bea188"
      [] s = "{\"args\": [[1, 2]], \"kwargs\": {\"a\": 2, \"b\": 2}}" ->
           "801d000bd1427f021459b0613de802a70240f4e113a38276e69ed8807a102144"
      [] s = "{\"args\": [[1, 2]], \"kwargs\": {\"a\": 2}}" ->
           "90025a2b10384bbecd8f2431311de82dfb4ccf14fb00c660816d8a06d7ded453"
      [] s = "{\"args\": [[1, 2]], \"kwargs\": {\"b\": 1}}" ->
           "b14e74ebcd4eb52d4cf5d1229f434c710e2969a6627210168b825ac6a6e5cf28"
      [] s = "{\"args\": [[1, 2]], \"kwargs\": {\"b\": 2}}" ->
           "650fead0ce5d47d13115b5176568bd07cad1771a462c1327898c831cfbd8f31d"
      [] s = "{\"args\": [[1, 2]], \"kwargs\": {}}" ->
           "1879b1f26f06787a595d7a6f3327081f9b372e14cd3d564f3041057fe84d18ea"
      [] s = "{\"args\": [], \"kwargs\": {\"a\": 1, \"b\": 1}}" ->
           "5140fb78a4ac1a885d57eeabc55dcf24c4f49867a342e5cfed33be3f11b7e173"
      [] s = "{\"args\": [], \"kwargs\": {\"a\": 1, \"b\": 2}}" ->
           "38c6153d24840f60811de19e7c4e67add2d131e22f0fc968e3e4b44144980743"
      [] s = "{\"args\": [], \"kwargs\": {\"a\": 1}}" ->
           "8ba6da5009261445c175a670155ecc955ec8239e9f40324cbe4784d607b417e4"
      [] s = "{\"args\": [], \"kwargs\": {\"a\": 2, \"b\": 1}}" ->
           "6c1902a72e55df502e7631f5366a748434b8ff62248bf3bad99cec3d43aa6334"
      [] s = "{\"args\": [], \"kwargs\": {\"a\": 2, \"b\": 2}}" ->
           "2e3dd3492b041a1dfa1c61b5968ea8c9c8fc971560b9f55fb04146be80769670"
      [] s = "{\"args\": [], \"kwargs\": {\"a\": 2}}" ->
           "6317eb150b80a47db193d137414180fbe7aedc4684881fafc0c3ca29f1e52695"
      [] s = "{\"args\": [], \"kwargs\": {\"b\": 1}}" ->
           "74106096bb02f6299db01fd02454771c366e8c42bdfb904bcda8c139a96f6b58"
      [] s = "{\"args\": [], \"kwargs\": {\"b\": 2}}" ->
           "beb76d5df9578855a179767a0e694b9770873e621394e251c77e8c254a41592a"
      [] s = "{\"args\": [], \"kwargs\": {}}" ->
           "ddcb0ace97c5704824a4e6a1624cbedfd89afd84f67ef88f47fdf2f4c816bfed"
      [] s = "{\"args\": [{\"1\": \"a\"}], \"kwargs\": {\"a\": 1, \"b\": 1}}" ->
           "14008e067179e055a30d7787332390af6157aca000873115a01730a11c0bf3e6"
      [] s = "{\"args\": [{\"1\": \"a\"}], \"kwargs\": {\"a\": 1, \"b\": 2}}" ->
           "4126e950fd38c4e4b0f1359234685a988382431d365a1c2673f6496800606918"
      [] s = "{\"args\": [{\"1\": \"a\"}], \"kwargs\": {\"a\": 1}}" ->
           "57c8b1dcab7dee53765261ab6defc2612081fd1dfc2ed63989b49e065a1602f4"
      [] s = "{\"args\": [{\"1\": \"a\"}], \"kwargs\": {\"a\": 2, \"b\": 1}}" ->
           "aa52b00a61c120c1a92a77649d3a17134f34292f7f39082287b3539dad0a376e"
      [] s = "{\"args\": [{\"1\": \"a\"}], \"kwargs\": {\"a\": 2, \"b\": 2}}" ->
           "701dfe091e91adc6b9d7fd2166a7927ed824fa6da3a76fafe5e52edd81d1b938"
      [] s = "{\"args\": [{\"1\": \"a\"}], \"kwargs\": {\"a\": 2}}" ->
           "f26d0385d0d60651a13c209d3de76ab22fa88b8f2b84183f2b2423b2ad6ee650"
      [] s = "{\"args\": [{\"1\": \"a\"}], \"kwargs\": {\"b\": 1}}" ->
           "71a8e7bfc43ed6e584da363fdac4eb18eb18225ed80b552590c903ce286f8d74"
      [] s = "{\"args\": [{\"1\": \"a\"}], \"kwargs\": {\"b\": 2}}" ->
           "5a4e2c17fa2379f27b4618e06ddaf4651f843ac427c8d0df147aedbb9f1eb50f"
      [] s = "{\"args\": [{\"1\": \"a\"}], \"kwargs\": {}}" ->
           "b28ae5dfcbd98213b39959740c51243f677c402c42c6f6404fe43a1d479c7f66"

CreateKeyOf(args, kwargs) == Sha256Hex(JsonDumps(args, kwargs))

KeysInit ==
    /\ mem = MemoryCacheInit(1)
    /\ now = 0
    /\ lastOp = NoCall
    /\ writes = <<>>
    /\ redis = EmptyMap
    /\ l2up = FALSE
    /\ l2 = None
    /\ backend = "memory"
    /\ stats = NoStats
    /\ thrown = FALSE
    /\ threads = NoThreads
    /\ created = <<>>
    /\ config = NoConfig
    /\ errors = <<>>

\* CacheManager.create_key(*args, **kwargs); `created` keeps this call and the
\* one before it.
CreateKey(args, kwargs) ==
    /\ created' = (IF created = <<>> THEN <<>> ELSE <<created[Len(created)]>>)
                  \o <<[args |-> args, kwargs |-> kwargs, key |-> CreateKeyOf(args, kwargs)]>>
    /\ lastOp' = Call("create_key", "", CreateKeyOf(args, kwargs), mem, mem)
    /\ UNCHANGED <<mem, now, writes, remoteVars, managerVars, threads, config, errors>>

KeysNext == \E args \in ArgTuples, kwargs \in KwDicts : CreateKey(args, kwargs)

SpecKeys == KeysInit /\ [][KeysNext]_vars

\* ---------------------------------------------------------------- AgentConfig.validate

\* The fields of an AgentConfig that validate reads.  temperature is in
\* hundredths (the default 0.75 is 75).
ApiKeys == {"", "key"}
CacheBackends == {"memory", "redis", "hybrid"}
RedisUrls == {None, "", "redis://localhost:6379"}
Temperatures == {0 - 1, 75, 101}
TimeoutSeconds == {0, 15}
\* AgentConfig(): api_key is read from the environment, the rest are the
\* defaults of GeminiConfig, CacheConfig and WebScrapingConfig.
DefaultConfig(api_key) ==
    [api_key |-> api_key, backend |-> "memory", redis_url |-> None,
     temperature |-> 75, timeout_seconds |-> 15]
Configs ==
    [api_key : ApiKeys, backend : CacheBackends, redis_url : RedisUrls,
     temperature : Temperatures, timeout_seconds : TimeoutSeconds]

\* `not x` for an Optional[str]: None and the empty string.
Falsy(x) == x = None \/ x = ""

ApiKeyError == "GEMINI_API_KEY is required"
RedisUrlError == "REDIS_URL is required when using Redis cache"
TemperatureError == "Temperature must be between 0 and 1"
TimeoutError == "Web scraping timeout must be at least 1 second"

\* AgentConfig.validate: the list of errors, in the order of the checks.
ValidateErrors(cfg) ==
    (IF Falsy(cfg.api_key) THEN <<ApiKeyError>> ELSE <<>>)
    \o (IF cfg.backend = "redis" /\ Falsy(cfg.redis_url) THEN <<RedisUrlError>> ELSE <<>>)
    \o (IF cfg.temperature < 0 \/ cfg.temperature > 100 THEN <<TemperatureError>> ELSE <<>>)
    \o (IF cfg.timeout_seconds < 1 THEN <<TimeoutError>> ELSE <<>>)

\* AgentConfig built by its constructor from any of the field values.
ConfigInit ==
    /\ mem = MemoryCacheInit(1)
    /\ now = 0
    /\ lastOp = NoCall
    /\ writes = <<>>
    /\ redis = EmptyMap
    /\ l2up = FALSE
    /\ l2 = None
    /\ backend = "memory"
    /\ stats = NoStats
    /\ thrown = FALSE
    /\ threads = NoThreads
    /\ created = <<>>
    /\ config \in Configs
    /\ errors = <<>>

\* AgentConfig.from_env: a new AgentConfig, with CACHE_BACKEND and REDIS_URL
\* taken from the environment when they are set and not empty.
FromEnv(api_key, cache_backend, redis_url) ==
    /\ config' = [DefaultConfig(api_key) EXCEPT
                    !.backend = IF Falsy(cache_backend) THEN @ ELSE cache_backend,
                    !.redis_url = IF Falsy(redis_url) THEN @ ELSE redis_url]
    /\ lastOp' = Call("from_env", "", None, mem, mem)
    /\ UNCHANGED <<mem, now, writes, remoteVars, managerVars, threads, created, errors>>

Validate ==
    /\ errors' = ValidateErrors(config)
    /\ lastOp' = Call("validate", "", None, mem, mem)
    /\ UNCHANGED <<mem, now, writes, remoteVars, managerVars, threads, created, config>>

ConfigNext ==
    \/ \E k \in ApiKeys, b \in CacheBackends \cup {None}, u \in RedisUrls : FromEnv(k, b, u)
    \/ Validate

SpecConfig == ConfigInit /\ [][ConfigNext]_vars

\* ---------------------------------------------------------------- TieredStore, with the set calls recorded

\* A HybridCache whose L2 answers; `writes` keeps, for each key, the last set
\* call made for it.
TracedInit ==
    /\ mem = MemoryCacheInit(1)
    /\ now = 0
    /\ lastOp = NoCall
    /\ writes = <<>>
    /\ redis = EmptyMap
    /\ l2up = TRUE
    /\ l2 = "RedisCache"
    /\ backend = "hybrid"
    /\ stats = NoStats
    /\ thrown = FALSE
    /\ threads = NoThreads
    /\ created = <<>>
    /\ config = NoConfig
    /\ errors = <<>>

TracedSet(k, v, ttl) ==
    /\ mem' = HybridSet(mem, redis, l2, l2up, k, v, ttl, now).mem
    /\ redis' = HybridSet(mem, redis, l2, l2up, k, v, ttl, now).redis
    /\ lastOp' = Call("set", k, v, mem, mem')
    /\ writes' = Recorded(writes, k, v, ttl, now)
    /\ UNCHANGED <<now, l2up, l2, managerVars, threads, pureVars>>

TracedGet(k) ==
    /\ mem' = HybridGet(mem, redis, l2, l2up, k, now).mem
    /\ lastOp' = Call("get", k, HybridGet(mem, redis, l2, l2up, k, now).value, mem, mem')
    /\ UNCHANGED <<now, writes, remoteVars, managerVars, threads, pureVars>>

TracedNext ==
    \/ \E k \in TieredKeys, v \in Values, ttl \in TTLs : TracedSet(k, v, ttl)
    \/ \E k \in TieredKeys : TracedGet(k)
    \/ Tick

SpecTraced == TracedInit /\ [][TracedNext]_vars

\* ---------------------------------------------------------------- threads on a MemoryCache

\* Two threads call methods of one MemoryCache.  The code takes no lock; the
\* interpreter may switch threads wherever a method makes a call (pickle.dumps,
\* self.delete, self._is_expired, datetime.now) and at the head of the while
\* loop, so each action is the code between two such points.
ThreadIds == {1, 2}
ThreadMbs == {1, 2}
\* The key stored before the threads start, and the keys they set.
StoredKey == "c"
ThreadSetKeys == {"a", "b"}
\* What set leaves behind when its except clause has caught an exception.
Failed == "Failed"

ThreadCalls ==
    {[op |-> "set", key |-> k, value |-> v, ttl |-> ttl, pc |-> "call",
      size |-> 0, victim |-> "", dsize |-> 0, result |-> None] :
        k \in ThreadSetKeys, v \in Values, ttl \in TTLs}
    \cup
    {[op |-> o, key |-> StoredKey, value |-> None, ttl |-> 0, pc |-> "call",
      size |-> 0, victim |-> "", dsize |-> 0, result |-> None] :
        o \in {"get", "delete"}}

\* The cache is empty or holds StoredKey, set at time 0 with ttl 0; at time 1
\* that entry has expired.
ThreadInit ==
    /\ mem \in {MemoryCacheInit(mb) : mb \in ThreadMbs}
               \cup {MemorySet(MemoryCacheInit(mb), StoredKey, "x", 0, 0) : mb \in ThreadMbs}
    /\ now \in {0, 1}
    /\ lastOp = NoCall
    /\ writes = <<>>
    /\ redis = EmptyMap
    /\ l2up = FALSE
    /\ l2 = None
    /\ backend = "memory"
    /\ stats = NoStats
    /\ thrown = FALSE
    /\ threads \in [ThreadIds -> ThreadCalls]
    /\ created = <<>>
    /\ config = NoConfig
    /\ errors = <<>>

Return(th, result) == [th EXCEPT !.pc = "done", !.result = result]
\* self.delete(...) has returned to _evict_if_needed, to get, or to the caller.
DeleteReturns(th) ==
    IF th.op = "set" THEN [th EXCEPT !.pc = "evict"] ELSE Return(th, None)
\* self.delete(...) has raised: set catches and logs, get and delete do not.
DeleteRaises(th) ==
    IF th.op = "set" THEN Return(th, Failed) ELSE Return(th, Raised)

\* The first lines of the method called, up to its first call.
ThreadCall(t) ==
    LET th == threads[t] IN
    /\ th.pc = "call"
    /\ threads' = [threads EXCEPT ![t] =
         CASE th.op = "set" -> [th EXCEPT !.size = Size(th.value), !.pc = "evict"]
           [] th.op = "get" ->
                IF ~DictHas(mem.cache, th.key) THEN Return(th, None)
                ELSE [th EXCEPT !.pc = "expired"]
           [] th.op = "delete" -> [th EXCEPT !.victim = th.key, !.pc = "delete"]]
    /\ UNCHANGED <<mem, now, lastOp, writes, remoteVars, managerVars, pureVars>>

\* get: _is_expired has answered; get returns the value or calls self.delete.
ThreadExpired(t) ==
    LET th == threads[t] IN
    /\ th.pc = "expired"
    /\ threads' = [threads EXCEPT ![t] =
         IF IsExpired(mem, th.key, now)
         THEN IF DictHas(mem.cache, th.key)
              THEN [th EXCEPT !.victim = th.key, !.pc = "delete"]
              ELSE Return(th, None)
         ELSE IF DictHas(mem.cache, th.key)
              THEN Return(th, DictGet(mem.cache, th.key))
              ELSE Return(th, Raised)]
    /\ UNCHANGED <<mem, now, lastOp, writes, remoteVars, managerVars, pureVars>>

\* _evict_if_needed: the while condition, and the choice of oldest_key.
ThreadEvict(t) ==
    LET th == threads[t] IN
    /\ th.pc = "evict"
    /\ threads' = [threads EXCEPT ![t] =
         IF mem.current_size + th.size > mem.max_size_bytes /\ mem.cache # <<>>
         THEN [th EXCEPT !.victim = DictFirst(mem.cache), !.pc = "delete"]
         ELSE [th EXCEPT !.pc = "store"]]
    /\ UNCHANGED <<mem, now, lastOp, writes, remoteVars, managerVars, pureVars>>

\* delete: `if key in self.cache` and the read of self.cache[key] for pickle.dumps.
ThreadDelete(t) ==
    /\ threads[t].pc = "delete"
    /\ IF DictHas(mem.cache, threads[t].victim)
       THEN /\ threads' = [threads EXCEPT ![t] =
                 [threads[t] EXCEPT
                    !.dsize = Size(DictGet(mem.cache, threads[t].victim)),
                    !.pc = "remove"]]
            /\ mem' = mem
       ELSE /\ mem' = [mem EXCEPT !.expiry = MapDel(@, threads[t].victim)]
            /\ threads' = [threads EXCEPT ![t] = DeleteReturns(@)]
    /\ UNCHANGED <<now, lastOp, writes, remoteVars, managerVars, pureVars>>

\* delete: current_size -= size, del self.cache[key] (KeyError when another
\* thread has removed the key meanwhile), and the removal from expiry.
ThreadRemove(t) ==
    /\ threads[t].pc = "remove"
    /\ IF DictHas(mem.cache, threads[t].victim)
       THEN /\ mem' = [mem EXCEPT !.current_size = @ - threads[t].dsize,
                                  !.cache = DictDel(@, threads[t].victim),
                                  !.expiry = MapDel(@, threads[t].victim)]
            /\ threads' = [threads EXCEPT ![t] = DeleteReturns(@)]
       ELSE /\ mem' = [mem EXCEPT !.current_size = @ - threads[t].dsize]
            /\ threads' = [threads EXCEPT ![t] = DeleteRaises(@)]
    /\ UNCHANGED <<now, lastOp, writes, remoteVars, managerVars, pureVars>>

\* set: self.cache[key] = value, up to the call of datetime.now().
ThreadStore(t) ==
    /\ threads[t].pc = "store"
    /\ mem' = [mem EXCEPT !.cache = DictPut(@, threads[t].key, threads[t].value)]
    /\ threads' = [threads EXCEPT ![t].pc = "account"]
    /\ UNCHANGED <<now, lastOp, writes, remoteVars, managerVars, pureVars>>

\* set: self.expiry[key] = ..., self.current_size += size.
ThreadAccount(t) ==
    /\ threads[t].pc = "account"
    /\ mem' = [mem EXCEPT !.expiry = MapPut(@, threads[t].key, now + threads[t].ttl),
                          !.current_size = @ + threads[t].size]
    /\ threads' = [threads EXCEPT ![t] = Return(@, None)]
    /\ UNCHANGED <<now, lastOp, writes, remoteVars, managerVars, pureVars>>

ThreadNext ==
    \/ \E t \in ThreadIds : ThreadCall(t)
    \/ \E t \in ThreadIds : ThreadExpired(t)
    \/ \E t \in ThreadIds : ThreadEvict(t)
    \/ \E t \in ThreadIds : ThreadDelete(t)
    \/ \E t \in ThreadIds : ThreadRemove(t)
    \/ \E t \in ThreadIds : ThreadStore(t)
    \/ \E t \in ThreadIds : ThreadAccount(t)

SpecThreads == ThreadInit /\ [][ThreadNext]_vars

\* ---------------------------------------------------------------- threads on a HybridCache

\* Two threads call get and set of one HybridCache.  HybridCache takes no lock
\* either: between the calls its methods make on the tiers (l1.get, l2.get,
\* l1.set, l2.set) the other thread may run.  Each tier call is one step here.
HybridKeys == {"a", "b"}
\* What another process, or an earlier run of this one, left in Redis under the
\* prefix: nothing, or a value for key "a" that is still alive.
EarlierData ==
    {EmptyMap} \cup
    {RedisSet(EmptyMap, TRUE, "a", v, DefaultTTL, 0) : v \in Values}

HybridCalls ==
    {[op |-> "set", key |-> k, value |-> v, ttl |-> ttl, pc |-> "call",
      read |-> None, result |-> None] :
        k \in HybridKeys, v \in Values, ttl \in TTLs}
    \cup
    {[op |-> "get", key |-> k, value |-> None, ttl |-> 0, pc |-> "call",
      read |-> None, result |-> None] : k \in HybridKeys}

\* A HybridCache just constructed against a Redis that answered the ping.
HybridThreadInit ==
    /\ mem \in {MemoryCacheInit(mb) : mb \in ThreadMbs}
    /\ now = 0
    /\ lastOp = [NoCall EXCEPT !.value = RedisCacheInit(TRUE)]
    /\ writes = <<>>
    /\ redis \in EarlierData
    /\ l2up = TRUE
    /\ l2 = HybridCacheInit(TRUE)
    /\ backend = "hybrid"
    /\ stats = NoStats
    /\ thrown = FALSE
    /\ threads \in [ThreadIds -> HybridCalls]
    /\ created = <<>>
    /\ config = NoConfig
    /\ errors = <<>>

\* get: value = self.l1.get(key), returned when it is not None.
HybridThreadL1Get(t) ==
    LET th == threads[t]
        first == MemoryGet(mem, th.key, now) IN
    /\ th.pc = "call"
    /\ th.op = "get"
    /\ mem' = first.mem
    /\ threads' = [threads EXCEPT ![t] =
         IF first.value # None THEN Return(th, first.value)
         ELSE IF l2 = None THEN Return(th, None)
         ELSE [th EXCEPT !.pc = "l2get"]]
    /\ UNCHANGED <<now, lastOp, writes, remoteVars, managerVars, pureVars>>

\* get: value = self.l2.get(key); None is returned at once.
HybridThreadL2Get(t) ==
    LET th == threads[t]
        value == RedisGet(redis, l2up, th.key) IN
    /\ th.pc = "l2get"
    /\ threads' = [threads EXCEPT ![t] =
         IF value = None THEN Return(th, None)
         ELSE [th EXCEPT !.read = value, !.pc = "populate"]]
    /\ UNCHANGED <<mem, now, lastOp, writes, remoteVars, managerVars, pureVars>>

\* get: self.l1.set(key, value) with the value read from L2, and the return.
HybridThreadPopulate(t) ==
    LET th == threads[t] IN
    /\ th.pc = "populate"
    /\ mem' = MemorySet(mem, th.key, th.read, DefaultTTL, now)
    /\ threads' = [threads EXCEPT ![t] = Return(th, th.read)]
    /\ UNCHANGED <<now, lastOp, writes, remoteVars, managerVars, pureVars>>

\* set: self.l1.set(key, value, ttl).
HybridThreadL1Set(t) ==
    LET th == threads[t] IN
    /\ th.pc = "call"
    /\ th.op = "set"
    /\ mem' = MemorySet(mem, th.key, th.value, th.ttl, now)
    /\ threads' = [threads EXCEPT ![t] =
         IF l2 = None THEN Return(th, None) ELSE [th EXCEPT !.pc = "l2set"]]
    /\ UNCHANGED <<now, lastOp, writes, remoteVars, managerVars, pureVars>>

\* set: self.l2.set(key, value, ttl), and the return.
HybridThreadL2Set(t) ==
    LET th == threads[t] IN
    /\ th.pc = "l2set"
    /\ redis' = RedisSet(redis, l2up, th.key, th.value, th.ttl, now)
    /\ threads' = [threads EXCEPT ![t] = Return(th, None)]
    /\ UNCHANGED <<mem, now, lastOp, writes, l2up, l2, managerVars, pureVars>>

HybridThreadNext ==
    \/ \E t \in ThreadIds : HybridThreadL1Get(t)
    \/ \E t \in ThreadIds : HybridThreadL2Get(t)
    \/ \E t \in ThreadIds : HybridThreadPopulate(t)
    \/ \E t \in ThreadIds : HybridThreadL1Set(t)
    \/ \E t \in ThreadIds : HybridThreadL2Set(t)

SpecHybridThreads == HybridThreadInit /\ [][HybridThreadNext]_vars

\* ---------------------------------------------------------------- C1

\* C1: in every state of a LocalStore the tracked total current_size is not
\* negative and equals the sum of the sizes of the stored entries.
C1_SizeIsSumOfEntries ==
    /\ mem.current_size >= 0
    /\ mem.current_size = SumSizes(mem.cache)

\* ---------------------------------------------------------------- C2

\* C2: a get of a stored key k, written by set(k, v, t) at time `at`, returns v
\* while now < at + t; once now > at + t it returns absent, removes the entry and
\* takes the entry's size off current_size.
C2_TtlHonoured ==
    [][\A k \in Keys :
         (/\ DictHas(mem.cache, k)
          /\ lastOp'.op = "get" /\ lastOp'.key = k
          /\ LocalGet(k)) =>
            LET w == WriteOf(writes, k) IN
            /\ now < w.at + w.ttl => lastOp'.value = w.value
            /\ now > w.at + w.ttl =>
                  /\ lastOp'.value = None
                  /\ ~DictHas(mem'.cache, k)
                  /\ k \notin DOMAIN mem'.expiry
                  /\ mem'.current_size = mem.current_size - Size(w.value)]_vars

\* A get found its key stored but expired and removed it, while another entry
\* stays stored.
C2_Witness ==
    /\ lastOp.op = "get"
    /\ lastOp.value = None
    /\ lastOp.removed = {lastOp.key}
    /\ mem.cache # <<>>

\* ---------------------------------------------------------------- C3

\* C3: every entry a set evicts was written by an earlier set call than every
\* entry that survives that set.
C3_EvictsOldestInserted ==
    [][\A k \in Keys, v \in SetValues, ttl \in TTLs :
         (/\ lastOp'.op = "set" /\ lastOp'.key = k /\ lastOp'.value = v
          /\ LocalSet(k, v, ttl)) =>
            \A e \in DictKeys(mem.cache) \ DictKeys(mem'.cache),
               s \in (DictKeys(mem.cache) \cap DictKeys(mem'.cache)) \ {k} :
                 WritePos(writes, e) < WritePos(writes, s)]_vars

\* ---------------------------------------------------------------- C4

\* C4 as claimed: after every set the stored entries fit the capacity.
C4_BoundedByCapacity ==
    lastOp.op = "set" => SumSizes(mem.cache) <= mem.max_size_bytes

\* C4 as amended: the stored entries fit the capacity, unless the store holds a
\* single entry that alone is larger than the capacity.
C4_BoundedUnlessOversized ==
    \/ SumSizes(mem.cache) <= mem.max_size_bytes
    \/ /\ Len(mem.cache) = 1
       /\ Size(mem.cache[1][2]) > mem.max_size_bytes

\* A set of a large value evicted an entry to make room and left two entries
\* stored, within the capacity.
C4_Witness ==
    /\ lastOp.op = "set"
    /\ lastOp.value = "xy"
    /\ lastOp.removed # {}
    /\ Len(mem.cache) = 2
    /\ SumSizes(mem.cache) <= mem.max_size_bytes

\* ---------------------------------------------------------------- C5

\* C5: a set(k, v, ttl) with ttl > 0 on a HybridCache whose L2 answers leaves v
\* in L2 under k; and whenever k is missing from L1 while L2 answers and still
\* holds what was written for k, get(k) returns that value and leaves k in L1
\* with that value.
C5_ReadThrough ==
    [][/\ \A k \in TieredKeys, v \in Values, ttl \in TTLs :
            (/\ l2 # None /\ l2up /\ ttl > 0
             /\ lastOp'.op = "set" /\ lastOp'.key = k /\ lastOp'.value = v
             /\ TieredSet(k, v, ttl)) =>
               RedisGet(redis', l2up, k) = v
       /\ \A k \in TieredKeys :
            (/\ l2 # None /\ l2up
             /\ ~DictHas(mem.cache, k)
             /\ RedisGet(redis, l2up, k) # None
             /\ lastOp'.op = "get" /\ lastOp'.key = k
             /\ TieredGet(k)) =>
               /\ lastOp'.value = RedisGet(redis, l2up, k)
               /\ DictHas(mem'.cache, k)
               /\ DictGet(mem'.cache, k) = RedisGet(redis, l2up, k)]_vars

\* A get has just been served by L2, which answers: its key is in L1 with the
\* default TTL, which only the read-through gives, and the value L2 holds.
C5_Witness ==
    /\ lastOp.op = "get"
    /\ lastOp.value \in Values
    /\ lastOp.at = now
    /\ l2up
    /\ DictHas(mem.cache, lastOp.key)
    /\ mem.expiry[lastOp.key] = now + DefaultTTL
    /\ RedisGet(redis, l2up, lastOp.key) = lastOp.value

\* ---------------------------------------------------------------- C6

\* C6: when the last call was a get(k) that returned a value and no time has
\* passed since, a get(k) made now returns the same value, whether or not the
\* Redis service went down or came back in between.
C6_ReadYourOwnWrite ==
    [][\A k \in TieredKeys :
         (/\ lastOp.op = "get" /\ lastOp.key = k
          /\ lastOp.value # None
          /\ lastOp.at = now
          /\ TieredGet(k)) =>
            lastOp'.value = lastOp.value]_vars

\* A get was served by L2 (its key is in L1 with the default TTL that only the
\* read-through gives) and the Redis service has stopped answering since.
C6_Witness ==
    /\ lastOp.op = "get"
    /\ lastOp.value \in Values
    /\ lastOp.at = now
    /\ ~l2up
    /\ l2 # None
    /\ DictHas(mem.cache, lastOp.key)
    /\ mem.expiry[lastOp.key] = now + DefaultTTL

\* ---------------------------------------------------------------- C7

\* C7: when the wrapped backend's get raises, CacheManager.get returns None to
\* its caller, adds exactly 1 to errors and leaves hits, misses and sets as
\* they were.
C7_GetAbsorbsFailure ==
    [][\A k \in ManagerKeys :
         (/\ stats' # stats /\ thrown'
          /\ lastOp'.op = "get" /\ lastOp'.key = k
          /\ ManagerGet(k)) =>
            /\ lastOp'.value = None
            /\ stats'.errors = stats.errors + 1
            /\ stats'.hits = stats.hits
            /\ stats'.misses = stats.misses
            /\ stats'.sets = stats.sets]_vars

\* The backend's get has just raised, after a get that was a hit.
C7_Witness ==
    /\ lastOp.op = "get"
    /\ thrown
    /\ lastOp.value = None
    /\ stats.errors = 1
    /\ stats.hits = 1

\* ---------------------------------------------------------------- C8

\* C8: CacheManager.set never ends with an exception; when the backend's set
\* raises, errors grows by exactly 1 and sets is unchanged; when it returns,
\* sets grows by exactly 1 and errors is unchanged.
C8_SetAbsorbsFailure ==
    [][\A k \in ManagerKeys, v \in SetValues, ttl \in TTLs :
         (/\ stats' # stats
          /\ lastOp'.op = "set" /\ lastOp'.key = k /\ lastOp'.value = v
          /\ ManagerSet(k, v, ttl)) =>
            /\ lastOp'.value # Raised
            /\ thrown' =>
                  (stats'.errors = stats.errors + 1 /\ stats'.sets = stats.sets)
            /\ ~thrown' =>
                  (stats'.sets = stats.sets + 1 /\ stats'.errors = stats.errors)]_vars

\* The backend's set has just raised, after a set that returned.
C8_Witness ==
    /\ lastOp.op = "set"
    /\ thrown
    /\ stats.errors = 1
    /\ stats.sets = 1

\* ---------------------------------------------------------------- C9

\* C9: a get or set made through a CacheManager around a MemoryCache,
\* RedisCache or HybridCache in which an operational error occurs (the value
\* cannot be pickled; the Redis service does not answer; SETEX refuses the
\* time to live) adds exactly 1 to errors and is counted neither as a miss
\* nor as a set.
C9_ErrorsAreCounted ==
    [][/\ \A k \in ManagerKeys, v \in SetValues, ttl \in TTLs :
            (/\ backend \in {"memory", "redis", "hybrid"}
             /\ \/ ~Picklable(v)
                \/ backend = "redis" /\ (~l2up \/ ttl <= 0)
                \/ backend = "hybrid" /\ l2 # None /\ (~l2up \/ ttl <= 0)
             /\ stats' # stats
             /\ lastOp'.op = "set" /\ lastOp'.key = k /\ lastOp'.value = v
             /\ ManagerSet(k, v, ttl)) =>
               (stats'.errors = stats.errors + 1 /\ stats'.sets = stats.sets)
       /\ \A k \in ManagerKeys :
            (/\ \/ backend = "redis" /\ ~l2up
                \/ /\ backend = "hybrid" /\ l2 # None /\ ~l2up
                   /\ MemoryGet(mem, k, now).value = None
             /\ stats' # stats
             /\ lastOp'.op = "get" /\ lastOp'.key = k
             /\ ManagerGet(k)) =>
               (stats'.errors = stats.errors + 1 /\ stats'.misses = stats.misses)]_vars

\* ---------------------------------------------------------------- C10

\* C10: no CacheManager.delete or CacheManager.clear ends with an exception
\* reaching the caller.
C10_DeleteClearAbsorbFailure ==
    lastOp.op \in {"delete", "clear"} => lastOp.value # Raised

\* ---------------------------------------------------------------- C11

\* C11: while the Redis service does not answer, no call of a RedisCache ends
\* with an exception: get returns None, exists returns False, and set and
\* delete leave the keys held by the service as they were.
C11_RemoteDegrades ==
    [][~l2up =>
         /\ lastOp'.value # Raised
         /\ \A k \in Keys :
              /\ (lastOp'.op = "get" /\ RemoteGet(k)) => lastOp'.value = None
              /\ (lastOp'.op = "exists" /\ RemoteExists(k)) =>
                    lastOp'.value = BoolStr(FALSE)
              /\ (lastOp'.op = "delete" /\ RemoteDelete(k)) => redis' = redis
              /\ \A v \in SetValues, ttl \in TTLs :
                    (lastOp'.op = "set" /\ lastOp'.key = k /\ RemoteSet(k, v, ttl)) =>
                       redis' = redis]_vars

\* A get has returned None for a key the service holds but cannot be asked for.
C11_Witness ==
    /\ ~l2up
    /\ lastOp.op = "get"
    /\ lastOp.value = None
    /\ MakeKey(lastOp.key) \in DOMAIN redis

\* ---------------------------------------------------------------- C12

\* C12: HybridCache.set writes L1 whether or not L2 takes the write: right
\* after set(k, v, ttl) of a picklable v, L1 alone returns v for k, and so does
\* the HybridCache, also when L2 is configured and the service did not answer
\* (the service then keeps the keys it had).
C12_LocalWriteSurvivesRemoteFailure ==
    [][\A k \in TieredKeys, v \in Values, ttl \in TTLs :
         (/\ lastOp'.op = "set" /\ lastOp'.key = k /\ lastOp'.value = v
          /\ TieredSet(k, v, ttl)) =>
            /\ MemoryGet(mem', k, now').value = v
            /\ HybridGet(mem', redis', l2', l2up', k, now').value = v
            /\ (l2 # None /\ ~l2up) => redis' = redis]_vars

\* A set has just written L1 while the configured L2 holds nothing for the key.
C12_Witness ==
    /\ lastOp.op = "set"
    /\ lastOp.value \in Values
    /\ lastOp.at = now
    /\ l2 # None
    /\ ~l2up
    /\ DictHas(mem.cache, lastOp.key)
    /\ DictGet(mem.cache, lastOp.key) = lastOp.value
    /\ MakeKey(lastOp.key) \notin DOMAIN redis

\* ---------------------------------------------------------------- C13

AllReturned == \A t \in ThreadIds : threads[t].pc = "done"

\* C13: when the threads set different keys, none of them stored before, no
\* set fails, and once every set has returned current_size is the sum of the
\* sizes of the stored entries.
C13_ConcurrentSetsKeepSize ==
    (/\ threads # NoThreads
     /\ \A t \in ThreadIds : threads[t].op = "set"
     /\ \A t, u \in ThreadIds : t # u => threads[t].key # threads[u].key) =>
        /\ \A t \in ThreadIds : threads[t].result # Failed
        /\ AllReturned => mem.current_size = SumSizes(mem.cache)

\* ---------------------------------------------------------------- C14

\* C14: when the threads get, or get and delete, the expired StoredKey, its
\* size is subtracted once: current_size never goes below 0, no call raises,
\* and once the calls have returned current_size is the sum of the sizes of the
\* stored entries.
C14_ExpiredRemovedOnce ==
    (/\ threads # NoThreads
     /\ now > 0
     /\ \A t \in ThreadIds : threads[t].op \in {"get", "delete"}
     /\ \E t \in ThreadIds : threads[t].op = "get") =>
        /\ mem.current_size >= 0
        /\ \A t \in ThreadIds : threads[t].result # Raised
        /\ AllReturned => mem.current_size = SumSizes(mem.cache)

\* ---------------------------------------------------------------- C15

\* C15: once more than ttl seconds have passed since the last set(k, v, ttl) of
\* a key, ttl > 0, no get(k) of the HybridCache returns v, whether or not a get
\* has copied the entry from L2 into L1 meanwhile.
C15_TieredTtlHonoured ==
    [][\A k \in TieredKeys :
         (/\ lastOp'.op = "get" /\ lastOp'.key = k
          /\ \E i \in 1..Len(writes) : writes[i].key = k
          /\ WriteOf(writes, k).ttl > 0
          /\ now > WriteOf(writes, k).at + WriteOf(writes, k).ttl
          /\ TracedGet(k)) =>
            lastOp'.value # WriteOf(writes, k).value]_vars

\* ---------------------------------------------------------------- C16

\* C16: a set of a key that is already stored puts the key last in the
\* eviction order, the order in which _evict_if_needed takes the keys.
C16_ResetMovesToNewest ==
    [][\A k \in Keys, v \in Values, ttl \in TTLs :
         (/\ lastOp'.op = "set" /\ lastOp'.key = k /\ lastOp'.value = v
          /\ DictHas(mem.cache, k)
          /\ LocalSet(k, v, ttl)) =>
            mem'.cache[Len(mem'.cache)][1] = k]_vars

\* ---------------------------------------------------------------- C17

\* C17: right after set(k, v, ttl) of a picklable v, k is stored with value v
\* and get(k) returns v, whatever the size of v and whatever was stored before:
\* the evictions of a set never take the entry the set writes.
C17_SetKeepsItsEntry ==
    [][\A k \in Keys, v \in Values, ttl \in TTLs :
         (/\ lastOp'.op = "set" /\ lastOp'.key = k /\ lastOp'.value = v
          /\ LocalSet(k, v, ttl)) =>
            /\ DictHas(mem'.cache, k)
            /\ DictGet(mem'.cache, k) = v
            /\ MemoryGet(mem', k, now').value = v
            /\ k \notin lastOp'.removed]_vars

\* A set has evicted another entry and stored a value larger than the capacity.
C17_Witness ==
    /\ lastOp.op = "set"
    /\ lastOp.value \in Values
    /\ lastOp.removed # {}
    /\ lastOp.at = now
    /\ Size(lastOp.value) > mem.max_size_bytes
    /\ DictKeys(mem.cache) = {lastOp.key}
    /\ DictGet(mem.cache, lastOp.key) = lastOp.value

\* ---------------------------------------------------------------- C18

\* The remote keys a step has added, removed or rewritten.
Touched(r1, r2) ==
    {x \in DOMAIN r1 \cup DOMAIN r2 :
        x \notin DOMAIN r1 \/ x \notin DOMAIN r2 \/ r1[x] # r2[x]}

\* C18: a call with key k reads and writes the remote key prefix + k and no
\* other; clear removes the keys that start with the prefix, all of them, and
\* no other; the keys of the service that do not start with the prefix stay as
\* they are and their data is never returned.
C18_Namespaced ==
    [][/\ \A x \in ForeignKeys : x \in DOMAIN redis' /\ redis'[x] = redis[x]
       /\ \A x \in ForeignKeys : lastOp'.value # Loads(ForeignData[x].data)
       /\ \A k \in Keys :
            /\ (lastOp'.op = "get" /\ RemoteGet(k) /\ lastOp'.value # None) =>
                 /\ MakeKey(k) \in DOMAIN redis
                 /\ lastOp'.value = Loads(redis[MakeKey(k)].data)
            /\ (lastOp'.op = "exists" /\ RemoteExists(k)) =>
                 lastOp'.value = BoolStr(l2up /\ MakeKey(k) \in DOMAIN redis)
            /\ (lastOp'.op = "delete" /\ RemoteDelete(k)) =>
                 /\ Touched(redis, redis') \subseteq {MakeKey(k)}
                 /\ l2up => MakeKey(k) \notin DOMAIN redis'
            /\ \A v \in SetValues, ttl \in TTLs :
                 (lastOp'.op = "set" /\ lastOp'.key = k /\ RemoteSet(k, v, ttl)) =>
                    Touched(redis, redis') \subseteq {MakeKey(k)}
       /\ (lastOp'.op = "clear" /\ RemoteClear) =>
            /\ \A x \in Touched(redis, redis') : HasPrefix(x)
            /\ l2up => \A x \in DOMAIN redis' : ~HasPrefix(x)]_vars

\* A set with a key that another user of the service holds unprefixed: both
\* remote keys are there, each with its own data.
C18_Witness ==
    /\ lastOp.op = "set"
    /\ lastOp.key \in ForeignKeys
    /\ lastOp.value \in Values
    /\ MakeKey(lastOp.key) \in DOMAIN redis
    /\ redis[MakeKey(lastOp.key)].data = Dumps(lastOp.value)
    /\ redis[lastOp.key] = ForeignData[lastOp.key]

\* ---------------------------------------------------------------- C19

\* C19: with an L2 that answers, after delete(k) neither L1 nor the service
\* holds k and after clear() L1 is empty and the service holds no key of the
\* prefix; with l2 None both act on L1 as MemoryCache does, leave the service
\* alone and return normally.
C19_DeleteClearReachBothTiers ==
    [][/\ \A k \in TieredKeys :
            (lastOp'.op = "delete" /\ lastOp'.key = k /\ TieredDelete(k)) =>
               /\ lastOp'.value = None
               /\ mem' = MemoryDelete(mem, k)
               /\ ~DictHas(mem'.cache, k)
               /\ (l2 # None /\ l2up) =>
                     /\ MakeKey(k) \notin DOMAIN redis'
                     /\ HybridGet(mem', redis', l2', l2up', k, now').value = None
               /\ l2 = None => redis' = redis
       /\ (lastOp'.op = "clear" /\ TieredClear) =>
               /\ lastOp'.value = None
               /\ mem' = MemoryClear(mem)
               /\ mem'.cache = <<>>
               /\ (l2 # None /\ l2up) => \A x \in DOMAIN redis' : ~HasPrefix(x)
               /\ l2 = None => redis' = redis]_vars

\* A delete on a HybridCache whose L2 answers has removed its key from L1;
\* the service does not hold it, and the other key is still in both tiers.
C19_Witness ==
    /\ lastOp.op = "delete"
    /\ lastOp.removed = {lastOp.key}
    /\ l2 # None
    /\ l2up
    /\ MakeKey(lastOp.key) \notin DOMAIN redis
    /\ mem.cache # <<>>
    /\ redis # EmptyMap

\* ---------------------------------------------------------------- C20

\* C20: when the service does not answer at construction, RedisCache(...)
\* raises CacheError and HybridCache.__init__ ends with l2 None; l2 then stays
\* None, and get, set, delete, clear and exists do what the same call on the
\* MemoryCache does, return what it returns, and leave the service alone.
C20_InitFailureDegrades ==
    /\ ~l2up => (lastOp.value = CacheError /\ l2 = None)
    /\ [][l2 = None =>
            /\ l2' = None
            /\ lastOp'.op # "init" => lastOp'.value \notin {Raised, CacheError}
            /\ \A k \in TieredKeys :
                 /\ (lastOp'.op = "get" /\ lastOp'.key = k /\ TieredGet(k)) =>
                      /\ mem' = MemoryGet(mem, k, now).mem
                      /\ lastOp'.value = MemoryGet(mem, k, now).value
                 /\ (lastOp'.op = "exists" /\ lastOp'.key = k /\ TieredExists(k)) =>
                      Truthy(lastOp'.value) = MemoryExists(mem, k, now)
                 /\ (lastOp'.op = "delete" /\ lastOp'.key = k /\ TieredDelete(k)) =>
                      (mem' = MemoryDelete(mem, k) /\ redis' = redis)
                 /\ \A v \in SetValues, ttl \in TTLs :
                      (/\ lastOp'.op = "set" /\ lastOp'.key = k /\ lastOp'.value = v
                       /\ TieredSet(k, v, ttl)) =>
                         (mem' = MemorySet(mem, k, v, ttl, now) /\ redis' = redis)
            /\ (lastOp'.op = "clear" /\ TieredClear) =>
                 (mem' = MemoryClear(mem) /\ redis' = redis)]_vars

\* A HybridCache built while the service was down serves a get from L1 after
\* the service has come back, and the service holds nothing.
C20_Witness ==
    /\ l2 = None
    /\ l2up
    /\ lastOp.op = "get"
    /\ lastOp.value \in Values
    /\ redis = EmptyMap

\* ---------------------------------------------------------------- C21

\* C21: the counters start at 0 and never decrease; a get adds 1 to exactly
\* one of them, errors when the backend raised, hits when it returned a value,
\* misses when it returned None; a set adds 1 to errors when the backend
\* raised and to sets otherwise; delete, clear and get_stats leave them alone.
\* Hence their sum is the number of get and set calls made.
C21_StatsAccounting ==
    /\ StatsTotal(stats) = 0
    /\ [][/\ stats'.hits >= stats.hits /\ stats'.misses >= stats.misses
          /\ stats'.sets >= stats.sets /\ stats'.errors >= stats.errors
          /\ \A k \in ManagerKeys :
               (lastOp'.op = "get" /\ lastOp'.key = k /\ ManagerGet(k)) =>
                  /\ StatsTotal(stats') = StatsTotal(stats) + 1
                  /\ thrown' => stats'.errors = stats.errors + 1
                  /\ (~thrown' /\ lastOp'.value # None) => stats'.hits = stats.hits + 1
                  /\ (~thrown' /\ lastOp'.value = None) =>
                        stats'.misses = stats.misses + 1
          /\ \A k \in ManagerKeys, v \in SetValues, ttl \in TTLs :
               (/\ lastOp'.op = "set" /\ lastOp'.key = k /\ lastOp'.value = v
                /\ ManagerSet(k, v, ttl)) =>
                  /\ StatsTotal(stats') = StatsTotal(stats) + 1
                  /\ thrown' => stats'.errors = stats.errors + 1
                  /\ ~thrown' => stats'.sets = stats.sets + 1
          /\ lastOp'.op \in {"delete", "clear", "get_stats"} => stats' = stats]_vars

\* get_stats is called after a hit, a miss and a set.
C21_Witness ==
    /\ lastOp.op = "get_stats"
    /\ stats.hits = 1
    /\ stats.misses = 1
    /\ stats.sets = 1
    /\ stats.errors = 0

\* ---------------------------------------------------------------- C22

\* The name/value pairs of a kwargs dict, whatever their order.
KwSet(kw) == {kw[i] : i \in 1..Len(kw)}

\* C22: two create_key calls return the same key when their positional
\* arguments are equal and their named arguments are the same name/value
\* pairs in any order, and different keys otherwise.
C22_CreateKeySeparates ==
    \A i, j \in 1..Len(created) :
        (created[i].key = created[j].key)
            <=> (/\ created[i].args = created[j].args
                 /\ KwSet(created[i].kwargs) = KwSet(created[j].kwargs))

\* ---------------------------------------------------------------- C23

ErrorSet == {errors[i] : i \in 1..Len(errors)}

\* C23: validate reports the missing Redis URL when the cache backend is
\* "redis" or "hybrid" and redis_url is not set, and does not report it when
\* the backend is "memory".
C23_RemoteUrlRequired ==
    lastOp.op = "validate" =>
        /\ (config.backend \in {"redis", "hybrid"} /\ Falsy(config.redis_url)) =>
              RedisUrlError \in ErrorSet
        /\ config.backend = "memory" => RedisUrlError \notin ErrorSet

\* ---------------------------------------------------------------- C24

\* C24: a get of a stored key whose expiry is at or before now, the instant of
\* expiry included, returns None and removes the entry.
C24_ExpiredAtBoundary ==
    [][\A k \in Keys :
         (/\ lastOp'.op = "get" /\ lastOp'.key = k
          /\ DictHas(mem.cache, k)
          /\ mem.expiry[k] <= now
          /\ LocalGet(k)) =>
            /\ lastOp'.value = None
            /\ ~DictHas(mem'.cache, k)]_vars

\* ---------------------------------------------------------------- C25

\* C25: an entry stored by set(k, v, ttl) with ttl <= 0 is never served: at any
\* time from the instant of the set on, get(k) returns None and exists(k) is
\* false.
C25_NonPositiveTtlExpiresAtOnce ==
    \A k \in DictKeys(mem.cache) :
        ((\E i \in 1..Len(writes) : writes[i].key = k) /\ WriteOf(writes, k).ttl <= 0) =>
            /\ MemoryGet(mem, k, now).value = None
            /\ ~MemoryExists(mem, k, now)

\* ---------------------------------------------------------------- C26

C27_NoStaleReadThrough ==
    \A t \in ThreadIds, u \in ThreadIds :
        (/\ threads # NoThreads
         /\ threads[t].pc = "done" /\ threads[u].pc = "done"
         /\ threads[t].op = "get" /\ threads[t].read # None
         /\ threads[u].op = "set" /\ threads[u].key = threads[t].key
         /\ threads[u].ttl > 0) =>
            /\ DictHas(mem.cache, threads[u].key)
            /\ DictGet(mem.cache, threads[u].key) = threads[u].value
            /\ HybridGet(mem, redis, l2, l2up, threads[u].key, now).value
                  = threads[u].value

\* C28: the last call on the HybridCache was delete(k), whatever the service
\* did during it and since; the get(k) that comes next returns None.
C28_DeleteIsEffective ==
    [][\A k \in TieredKeys :
         (/\ lastOp.op = "delete" /\ lastOp.key = k
          /\ lastOp'.op = "get" /\ lastOp'.key = k
          /\ TieredGet(k)) => lastOp'.value = None]_vars

\* C29: a HybridCache whose l2 is None is, in every state it reaches, in a state
\* of its L1 MemoryCache, and whatever call comes next gives what the same call
\* on that MemoryCache gives at the same time: the value of get, the truth of
\* exists, and the entries, expiries and current_size left behind.
C29_LocalOnlyIsMemoryCache ==
    l2 = None =>
        /\ \A k \in TieredKeys :
             /\ HybridGet(mem, redis, l2, l2up, k, now) = MemoryGet(mem, k, now)
             /\ Truthy(HybridExists(mem, redis, l2, l2up, k, now))
                   = MemoryExists(mem, k, now)
             /\ HybridDelete(mem, redis, l2, l2up, k)
                   = [mem |-> MemoryDelete(mem, k), redis |-> redis]
             /\ \A v \in SetValues, ttl \in TTLs :
                  HybridSet(mem, redis, l2, l2up, k, v, ttl, now)
                     = [mem |-> MemorySet(mem, k, v, ttl, now), redis |-> redis]
        /\ HybridClear(mem, redis, l2, l2up)
              = [mem |-> MemoryClear(mem), redis |-> redis]
        /\ redis = EmptyMap

\* A HybridCache without L2 holds two entries, the service has come back, and
\* exists has just answered True for one of them.
C29_Witness ==
    /\ l2 = None
    /\ l2up
    /\ Len(mem.cache) = 2
    /\ lastOp.op = "exists"
    /\ lastOp.value = BoolStr(TRUE)
    /\ MemoryExists(mem, lastOp.key, now)

\* C30: from every state the store reaches and for every entry to be set, the
\* eviction loop of set runs n times with n no more than the entries stored;
\* each run removes exactly one entry, the oldest; the loop goes on only while
\* the entry does not fit and something is stored, and when it stops the entry
\* fits or the store is empty; set then ends with the new entry stored.
C30_EvictionTerminates ==
    \A v \in Values :
        LET size == Size(v)
            n == EvictIterations(mem, size)
            m1 == EvictIfNeeded(mem, size)
        IN /\ n <= Len(mem.cache)
           /\ m1 = EvictSteps(mem, n)
           /\ \A j \in 0..Len(mem.cache) :
                j < n =>
                  /\ MustEvict(EvictSteps(mem, j), size)
                  /\ EvictSteps(mem, j + 1).cache = Tail(EvictSteps(mem, j).cache)
                  /\ DictKeys(EvictSteps(mem, j + 1).cache) \subseteq DOMAIN EvictSteps(mem, j + 1).expiry
           /\ m1.cache = SubSeq(mem.cache, n + 1, Len(mem.cache))
           /\ ~MustEvict(m1, size)
           /\ (m1.current_size + size <= m1.max_size_bytes \/ m1.cache = <<>>)
           /\ \A k \in Keys, ttl \in TTLs :
                DictHas(MemorySet(mem, k, v, ttl, now).cache, k)

\* A set has run the loop twice, and a set of an entry larger than the whole
\* capacity has emptied the store and stored the entry.
C30_Witness ==
    /\ lastOp.op = "set"
    /\ \/ Cardinality(lastOp.removed) >= 2
       \/ /\ Size(lastOp.value) > mem.max_size_bytes
          /\ lastOp.removed # {}
          /\ DictKeys(mem.cache) = {lastOp.key}

====
